---- MODULE Spec2Model ----
(***************************************************************************)
(* A model of src/bot.py: the congress-trade feed filter, the scoring      *)
(* rules, the Alpaca buy engine, the trailing-stop sell engine with its    *)
(* persisted watermark file, the fixed stop-loss/take-profit sell logic    *)
(* and the run_bot flow that chains them.                                  *)
(*                                                                         *)
(* Numbers.  Prices are integers (whole currency units; cents in the buy   *)
(* engine), fractions are kept as numerator/denominator pairs and compared *)
(* by cross multiplication, excess returns are in hundredths, times are in *)
(* seconds.                                                                *)
(***************************************************************************)
EXTENDS Integers, Sequences, FiniteSets, TLC

VARIABLES
  pc,            \* position of the running flow
  now,           \* dt.datetime.utcnow() read by fetch_congress_trades
  feed,          \* the HTTP response of the feed: [ok, columns, rows]
  df,            \* the frame fetch_congress_trades returned
  df_scored,     \* the frame score_trades returned
  buy,           \* what execute_trades saw and submitted
  trailing_file, \* trailing_sl.json: [exists, data]
  exit           \* what the sell engine saw, computed, saved and submitted

vars == <<pc, now, feed, df, df_scored, buy, trailing_file, exit>>

(***************************************************************************)
(* Bounds of the model (not program constants).                            *)
(***************************************************************************)
MaxFeedLen == 3
MaxScoreLen == 3
MaxCandidates == 2
MaxPriceCents == 7500
MaxPipeLen == 2
MaxDays == 3

(***************************************************************************)
(* Generic helpers.                                                        *)
(***************************************************************************)
Range(s) == {s[i] : i \in 1..Len(s)}

SeqsUpTo(S, n) == UNION {[1..k -> S] : k \in 0..n}

Min(a, b) == IF a <= b THEN a ELSE b

Max(a, b) == IF a >= b THEN a ELSE b

Take(s, n) == SubSeq(s, 1, Min(n, Len(s)))

\* the injective maps of 1..n onto itself
Perms(n) == {p \in [1..n -> 1..n] : \A i, j \in 1..n : p[i] = p[j] => i = j}

(***************************************************************************)
(* Cells of the feed.  A cell is a number, a date text that parses, any    *)
(* other text (also the empty text), or None.                              *)
(***************************************************************************)
Num(n) == [kind |-> "num", v |-> n]
DateText(t) == [kind |-> "date", v |-> t]
Text == [kind |-> "text", v |-> 0]
None == [kind |-> "none", v |-> 0]

\* pd.to_numeric(x, errors="coerce"): NaN unless the cell is a number
NaN == [nan |-> TRUE, v |-> 0]
to_numeric(c) == IF c.kind = "num" THEN [nan |-> FALSE, v |-> c.v] ELSE NaN

\* Series.fillna(0)
fillna0(x) == IF x.nan THEN 0 ELSE x.v

\* pd.to_datetime(x, errors="coerce"): NaT unless the cell parses as a date
NaT == [nat |-> TRUE, t |-> 0]
to_datetime(c) == IF c.kind = "date" THEN [nat |-> FALSE, t |-> c.v] ELSE NaT

(***************************************************************************)
(* 4. fetch_congress_trades                                                *)
(***************************************************************************)
SecondsPerDay == 86400
CutoffDays == 30

\* cutoff = utcnow() - timedelta(days=30)
Cutoff(t) == t - CutoffDays * SecondsPerDay

Raised == [raised |-> TRUE, columns |-> {}, rows |-> <<>>]

WithDate(r) ==
  [index |-> r.index, Traded |-> r.Traded, Ticker |-> r.Ticker,
   Transaction |-> r.Transaction, Trade_Size_USD |-> r.Trade_Size_USD,
   excess_return |-> r.excess_return,
   TransactionDate |-> to_datetime(r.Traded)]

\* df.dropna(subset=["TransactionDate"])
DropNaT(rows) == SelectSeq(rows, LAMBDA r : ~r.TransactionDate.nat)

\* (variant: a strict comparison with the cutoff)
KeepAfter(rows, cutoff) == SelectSeq(rows, LAMBDA r : r.TransactionDate.t > cutoff)

\* df[df["TransactionDate"] >= cutoff]
Recent(rows, cutoff) == SelectSeq(rows, LAMBDA r : r.TransactionDate.t >= cutoff)

fetch_congress_trades(resp, t) ==
  IF ~resp.ok THEN Raised                         \* r.raise_for_status()
  ELSE IF "Traded" \notin resp.columns THEN Raised  \* KeyError
  ELSE [raised |-> FALSE,
        columns |-> resp.columns \cup {"TransactionDate"},
        rows |-> Recent(DropNaT([i \in 1..Len(resp.rows) |-> WithDate(resp.rows[i])]),
                        Cutoff(t))]

(***************************************************************************)
(* 5. score_trades                                                         *)
(***************************************************************************)
\* str(x).upper() on the transaction texts of the model
Upper(s) ==
  CASE s \in {"Buy", "buy", "BUY"} -> "BUY"
    [] s \in {"Sell", "sell", "SELL"} -> "SELL"
    [] s = "Purchase" -> "PURCHASE"
    [] s = "Sale" -> "SALE"
    [] OTHER -> s

\* np.where(size >= 100000, 3, np.where(size >= 25000, 2, 1))
SizeTier(size) == IF size >= 100000 THEN 3 ELSE IF size >= 25000 THEN 2 ELSE 1

SizeScore(columns, r) ==
  IF "Trade_Size_USD" \in columns
    THEN SizeTier(fillna0(to_numeric(r.Trade_Size_USD)))
    ELSE 0

\* (variant: the comparison without upper())
DirectionCased(x) == IF x = "BUY" THEN 2 ELSE IF x = "SELL" THEN -2 ELSE 0
\* 2 if str(x).upper() == "BUY" else (-2 if str(x).upper() == "SELL" else 0)
DirectionScore(x) ==
  IF Upper(x) = "BUY" THEN 2 ELSE IF Upper(x) = "SELL" THEN -2 ELSE 0

\* np.where(er > 0.05, 2, np.where(er > 0, 1, 0)), er in hundredths
ExcessTier(er) == IF er > 5 THEN 2 ELSE IF er > 0 THEN 1 ELSE 0

ExcessScore(columns, r) ==
  IF "excess_return" \in columns
    THEN ExcessTier(fillna0(to_numeric(r.excess_return)))
    ELSE 0

\* df["score"] += 1
ActivityBonus == 1

RowScore(columns, r) ==
  0 + SizeScore(columns, r) + DirectionScore(r.Transaction)
    + ExcessScore(columns, r) + ActivityBonus

WithScore(columns, r) ==
  [index |-> r.index, Traded |-> r.Traded, Ticker |-> r.Ticker,
   Transaction |-> r.Transaction, Trade_Size_USD |-> r.Trade_Size_USD,
   excess_return |-> r.excess_return, TransactionDate |-> r.TransactionDate,
   score |-> RowScore(columns, r)]

IsSortedDesc(rows) == \A i, j \in 1..Len(rows) : i < j => rows[i].score >= rows[j].score

Reorderings(rows) == {[i \in 1..Len(rows) |-> rows[p[i]]] : p \in Perms(Len(rows))}

\* df.sort_values(by="score", ascending=False) with the default kind="quicksort":
\* numpy's quicksort is not stable, so the order of equal scores is whatever the
\* build's sort produces; every descending arrangement is a possible outcome.
sort_values(rows) == {s \in Reorderings(rows) : IsSortedDesc(s)}

\* the set of frames score_trades may return
score_trades(d) ==
  IF "Transaction" \notin d.columns THEN {Raised}   \* KeyError on df["Transaction"]
  ELSE {[raised |-> FALSE, columns |-> d.columns \cup {"score"}, rows |-> s] :
          s \in sort_values([i \in 1..Len(d.rows) |-> WithScore(d.columns, d.rows[i])])}

(***************************************************************************)
(* 8. execute_trades                                                       *)
(***************************************************************************)
BUY_THRESHOLD == 6
BUDGET == 50

\* the budget in cents, the unit of the model's prices
BudgetCents == BUDGET * 100

\* a ticker cell: a text (possibly empty) or not a string at all (None, NaN)
Sym(s) == [kind |-> "str", s |-> s]
NoTicker == [kind |-> "none", s |-> ""]

\* what the broker answers for one candidate: get_latest_trade raises, or its
\* price is None, or a price in cents; submit_order succeeds or raises
QuoteRaise == [quote |-> "raise", cents |-> 0, order_ok |-> TRUE]
QuoteNone == [quote |-> "none", cents |-> 0, order_ok |-> TRUE]
Quote(c, ok) == [quote |-> "price", cents |-> c, order_ok |-> ok]

\* (variant: the quotient alone, without the floor of one share)
Quotient(cents) == BudgetCents \div cents

\* max(1, int(BUDGET // price))
Qty(cents) == Max(1, BudgetCents \div cents)

\* (variant: the try/except around the whole loop, so an error ends the loop)
BuyOneAborting(r, held, o) ==
  IF r.Ticker.kind # "str" \/ r.Ticker.s = "" THEN [orders |-> <<>>, stop |-> FALSE]
  ELSE IF r.Ticker.s \in held THEN [orders |-> <<>>, stop |-> FALSE]
  ELSE IF o.quote = "raise" THEN [orders |-> <<>>, stop |-> TRUE]
  ELSE IF o.quote = "none" \/ o.cents <= 0 THEN [orders |-> <<>>, stop |-> FALSE]
  ELSE IF ~o.order_ok THEN [orders |-> <<>>, stop |-> TRUE]
  ELSE [orders |-> <<[symbol |-> r.Ticker.s, qty |-> Qty(o.cents)]>>, stop |-> FALSE]

\* one iteration of the loop over df_trade: the orders it submits, and whether
\* it ends the loop
BuyOne(r, held, o) ==
  IF r.Ticker.kind # "str" \/ r.Ticker.s = "" THEN [orders |-> <<>>, stop |-> FALSE]
  ELSE IF r.Ticker.s \in held THEN [orders |-> <<>>, stop |-> FALSE]
  ELSE IF o.quote = "raise" THEN [orders |-> <<>>, stop |-> FALSE]   \* except
  ELSE IF o.quote = "none" \/ o.cents <= 0 THEN [orders |-> <<>>, stop |-> FALSE]
  ELSE IF ~o.order_ok THEN [orders |-> <<>>, stop |-> FALSE]          \* except
  ELSE [orders |-> <<[symbol |-> r.Ticker.s, qty |-> Qty(o.cents)]>>, stop |-> FALSE]

\* for _, row in df_trade.iterrows(), from row i on; io maps a row's index
\* label to the broker's answers for it
RECURSIVE BuyLoop(_, _, _, _)
BuyLoop(rows, held, io, i) ==
  IF i > Len(rows) THEN <<>>
  ELSE LET one == BuyOne(rows[i], held, io[rows[i].index])
       IN  IF one.stop THEN one.orders
           ELSE one.orders \o BuyLoop(rows, held, io, i + 1)

\* (variant: a threshold one point lower)
ScoredNearThreshold(rows) == SelectSeq(rows, LAMBDA r : r.score >= BUY_THRESHOLD - 1)

\* df[df["score"] >= 6]
Qualifying(rows) == SelectSeq(rows, LAMBDA r : r.score >= BUY_THRESHOLD)

\* execute_trades(df): positions_ok is whether get_all_positions answers,
\* symbols the symbols it reports
execute_trades(d, positions_ok, symbols, io) ==
  IF Qualifying(d.rows) = <<>>
    THEN [raised |-> FALSE, held |-> {}, io |-> io, orders |-> <<>>]
  ELSE IF ~positions_ok
    THEN [raised |-> TRUE, held |-> {}, io |-> io, orders |-> <<>>]
  ELSE [raised |-> FALSE, held |-> symbols, io |-> io,
        orders |-> BuyLoop(Qualifying(d.rows), symbols, io, 1)]

(***************************************************************************)
(* 3. The watermark file                                                   *)
(***************************************************************************)
TRAIL_PERCENT_NUM == 8
TRAIL_PERCENT_DEN == 100
TOP_LOSERS_TO_SELL == 3

EmptyMap == [s \in {} |-> [highest |-> 0]]
NoFile == [exists |-> FALSE, data |-> EmptyMap]

\* load_trailing_data(): {} when the file is absent, and {} when reading or
\* parsing it raises (read_ok is whether open and json.load succeed)
load_trailing_data(file, read_ok) ==
  IF ~file.exists THEN EmptyMap
  ELSE IF read_ok THEN file.data
  ELSE EmptyMap

\* save_trailing_data(data)
save_trailing_data(data) == [exists |-> TRUE, data |-> data]

(***************************************************************************)
(* 9. trailing_stop_and_sell                                               *)
(***************************************************************************)
Frac(n, d) == [n |-> n, d |-> d]
Zero == Frac(0, 1)

\* a / b <= c / d and a / b < c / d for positive denominators
FracLeq(x, y) == x.n * y.d <= y.n * x.d
FracLess(x, y) == x.n * y.d < y.n * x.d

\* trailing_data.get(symbol, {}).get("highest", current_price)
Stored(data, symbol, current_price) ==
  IF symbol \in DOMAIN data THEN data[symbol].highest ELSE current_price

\* (variant: the watermark follows the current price)
FollowPrice(stored, current_price) == current_price

\* if current_price > highest: highest = current_price
Raise(stored, current_price) ==
  IF current_price > stored THEN current_price ELSE stored

\* (variant: the mapping is rebuilt from the symbol written)
PutAlone(data, symbol, highest) == [s \in {symbol} |-> [highest |-> highest]]

\* trailing_data[symbol] = {"highest": highest}
Put(data, symbol, highest) ==
  [s \in DOMAIN data \cup {symbol} |->
     IF s = symbol THEN [highest |-> highest] ELSE data[s]]

\* (current_price - cost_basis) / cost_basis if cost_basis > 0 else 0
PlPct(current_price, cost_basis) ==
  IF cost_basis > 0 THEN Frac(current_price - cost_basis, cost_basis) ELSE Zero

EvalRow(pos, highest) ==
  [symbol |-> pos.symbol, qty |-> pos.qty, current |-> pos.current_price,
   cost |-> pos.avg_entry_price, highest |-> highest,
   drop_pct |-> Frac(highest - pos.current_price, highest),
   pl_pct |-> PlPct(pos.current_price, pos.avg_entry_price)]

\* for pos in positions, from position i on.  The division by highest raises
\* ZeroDivisionError when highest is 0: the loop ends there, after the entry of
\* that symbol was written to the in-memory mapping.
RECURSIVE EvalLoop(_, _, _, _)
EvalLoop(data, positions, i, rows) ==
  IF i > Len(positions) THEN [raised |-> FALSE, data |-> data, rows |-> rows]
  ELSE LET pos == positions[i]
           highest == Raise(Stored(data, pos.symbol, pos.current_price),
                            pos.current_price)
           data2 == Put(data, pos.symbol, highest)
       IN  IF highest = 0
             THEN [raised |-> TRUE, data |-> data2, rows |-> rows]
             ELSE EvalLoop(data2, positions, i + 1, Append(rows, EvalRow(pos, highest)))

\* (variant: a strict comparison with the threshold)
AboveTrail(row) ==
  row.drop_pct.n * TRAIL_PERCENT_DEN > TRAIL_PERCENT_NUM * row.drop_pct.d

\* row["drop_pct"] >= TRAIL_PERCENT
IsViolator(row) ==
  row.drop_pct.n * TRAIL_PERCENT_DEN >= TRAIL_PERCENT_NUM * row.drop_pct.d

\* sorted(violators, key=lambda x: x["pl_pct"]): Python's sort is stable
RECURSIVE InsertByPl(_, _)
InsertByPl(sorted, row) ==
  IF sorted = <<>> THEN <<row>>
  ELSE IF FracLess(row.pl_pct, sorted[Len(sorted)].pl_pct)
    THEN Append(InsertByPl(SubSeq(sorted, 1, Len(sorted) - 1), row), sorted[Len(sorted)])
    ELSE Append(sorted, row)

RECURSIVE SortedByPl(_)
SortedByPl(rows) ==
  IF rows = <<>> THEN <<>>
  ELSE InsertByPl(SortedByPl(SubSeq(rows, 1, Len(rows) - 1)), rows[Len(rows)])

\* (variant: the cap applied before the sort)
FirstFound(violators) == SortedByPl(Take(violators, TOP_LOSERS_TO_SELL))

\* (variant: one position a day)
WorstOnly(violators) == Take(SortedByPl(violators), 1)

\* violators_sorted[:TOP_LOSERS_TO_SELL]
ToSell(violators) == Take(SortedByPl(violators), TOP_LOSERS_TO_SELL)

\* (variant: the first failed order ends the loop)
RECURSIVE SellLoopAborting(_, _, _, _)
SellLoopAborting(to_sell, order_fail, log_fail, i) ==
  IF i > Len(to_sell) THEN [attempts |-> <<>>, sells |-> <<>>, logged |-> <<>>]
  ELSE LET row == to_sell[i]
           order == [symbol |-> row.symbol, qty |-> row.qty]
           rest == SellLoopAborting(to_sell, order_fail, log_fail, i + 1)
       IN  IF row.symbol \in order_fail
             THEN [attempts |-> <<order>>, sells |-> <<>>, logged |-> <<>>]
             ELSE [attempts |-> <<order>> \o rest.attempts,
                   sells |-> <<order>> \o rest.sells,
                   logged |-> IF row.symbol \in log_fail THEN rest.logged
                              ELSE <<row.symbol>> \o rest.logged]

\* for row in to_sell, from row i on: the orders handed to submit_order
\* (attempts), those it accepted (sells) and the sales logged.  submit_order
\* raises for the symbols of order_fail and log_sale_to_sheet for those of
\* log_fail; both are caught per row.
RECURSIVE SellLoop(_, _, _, _)
SellLoop(to_sell, order_fail, log_fail, i) ==
  IF i > Len(to_sell) THEN [attempts |-> <<>>, sells |-> <<>>, logged |-> <<>>]
  ELSE LET rest == SellLoop(to_sell, order_fail, log_fail, i + 1)
           row == to_sell[i]
           order == [symbol |-> row.symbol, qty |-> row.qty]
       IN  IF row.symbol \in order_fail
             THEN [rest EXCEPT !.attempts = <<order>> \o rest.attempts]
             ELSE [attempts |-> <<order>> \o rest.attempts,
                   sells |-> <<order>> \o rest.sells,
                   logged |-> IF row.symbol \in log_fail THEN rest.logged
                              ELSE <<row.symbol>> \o rest.logged]

NoExit ==
  [policy |-> "none", raised |-> FALSE, load_ok |-> TRUE, positions |-> <<>>,
   rows |-> <<>>, dropped |-> {}, unpriced |-> {}, to_sell |-> <<>>,
   attempts |-> <<>>, sells |-> <<>>, logged |-> <<>>, saves |-> 0]

\* (variant: the mapping is also saved when the evaluation loop raises)
trailing_stop_saving_always(file, read_ok, broker, order_fail, log_fail) ==
  LET trailing_data == load_trailing_data(file, read_ok)
      base == [NoExit EXCEPT !.policy = "trailing",
                             !.load_ok = (~file.exists \/ read_ok)]
  IN  IF ~broker.ok THEN [file |-> file, exit |-> [base EXCEPT !.raised = TRUE]]
      ELSE IF broker.positions = <<>> THEN [file |-> file, exit |-> base]
      ELSE LET ev == EvalLoop(trailing_data, broker.positions, 1, <<>>)
               seen == [base EXCEPT !.positions = broker.positions,
                                    !.rows = ev.rows]
               sold == SellLoop(ToSell(SelectSeq(ev.rows, IsViolator)),
                                order_fail, log_fail, 1)
           IN  IF ev.raised
                 THEN [file |-> save_trailing_data(ev.data),
                       exit |-> [seen EXCEPT !.raised = TRUE, !.saves = 1]]
                 ELSE [file |-> save_trailing_data(ev.data),
                       exit |-> [seen EXCEPT !.saves = 1,
                                             !.to_sell = ToSell(SelectSeq(ev.rows, IsViolator)),
                                             !.attempts = sold.attempts,
                                             !.sells = sold.sells,
                                             !.logged = sold.logged]]

\* trailing_stop_and_sell(trading_client): the file it leaves and what it did.
\* broker is the answer of get_all_positions: [ok, positions].
trailing_stop_and_sell(file, read_ok, broker, order_fail, log_fail) ==
  LET trailing_data == load_trailing_data(file, read_ok)
      base == [NoExit EXCEPT !.policy = "trailing",
                             !.load_ok = (~file.exists \/ read_ok)]
  IN  IF ~broker.ok THEN [file |-> file, exit |-> [base EXCEPT !.raised = TRUE]]
      ELSE IF broker.positions = <<>> THEN [file |-> file, exit |-> base]
      ELSE LET ev == EvalLoop(trailing_data, broker.positions, 1, <<>>)
               seen == [base EXCEPT !.positions = broker.positions,
                                    !.rows = ev.rows]
           IN  IF ev.raised
                 THEN [file |-> file, exit |-> [seen EXCEPT !.raised = TRUE]]
                 ELSE LET violators == SelectSeq(ev.rows, IsViolator)
                          to_sell == ToSell(violators)
                          sold == SellLoop(to_sell, order_fail, log_fail, 1)
                      IN  [file |-> save_trailing_data(ev.data),
                           exit |-> [seen EXCEPT !.saves = 1,
                                                 !.to_sell = to_sell,
                                                 !.attempts = sold.attempts,
                                                 !.sells = sold.sells,
                                                 !.logged = sold.logged]]

(***************************************************************************)
(* sell_logic (stop-loss and take-profit)                                  *)
(***************************************************************************)
STOP_LOSS_NUM == -5
TAKE_PROFIT_NUM == 10
PERCENT_DEN == 100

\* one position of the loop of sell_logic.  The latest trade's price is the
\* position's current price; get_latest_trade raises for the symbols of
\* quote_fail.  The division by cost raises ZeroDivisionError when cost is 0;
\* every error of the iteration is caught and the position is left out.
SellEval(pos, quote_fail) ==
  IF pos.symbol \in quote_fail THEN [kind |-> "unpriced"]
  ELSE IF pos.current_price <= 0 THEN [kind |-> "skipped"]
  ELSE IF pos.avg_entry_price = 0 THEN [kind |-> "error"]
  ELSE LET pl == Frac(pos.current_price - pos.avg_entry_price, pos.avg_entry_price)
       IN  [kind |-> "evaluated",
            row |-> [symbol |-> pos.symbol, qty |-> pos.qty,
                     current |-> pos.current_price, cost |-> pos.avg_entry_price,
                     pl_pct |-> pl,
                     should_sell |-> (pl.n * PERCENT_DEN <= STOP_LOSS_NUM * pl.d
                                      \/ pl.n * PERCENT_DEN >= TAKE_PROFIT_NUM * pl.d)]]

\* sell_logic(stop_loss=-0.05, take_profit=0.10).  sheet_ok is whether
\* log_sales_to_sheet succeeds; it is called outside any try.
sell_logic(broker, quote_fail, order_fail, sheet_ok) ==
  LET base == [NoExit EXCEPT !.policy = "fixed"]
  IN  IF ~broker.ok \/ broker.positions = <<>> THEN base
      ELSE LET ps == broker.positions
               ev == [i \in 1..Len(ps) |-> SellEval(ps[i], quote_fail)]
               done == SelectSeq(ev, LAMBDA e : e.kind = "evaluated")
               rows == [i \in 1..Len(done) |-> done[i].row]
               picked == SelectSeq(rows, LAMBDA r : r.should_sell)
               sold == SelectSeq(picked, LAMBDA r : r.symbol \notin order_fail)
               sells == [i \in 1..Len(sold) |->
                           [symbol |-> sold[i].symbol, qty |-> sold[i].qty]]
           IN  [base EXCEPT !.positions = ps,
                            !.rows = rows,
                            !.dropped = {ps[i].symbol : i \in {j \in 1..Len(ps) : ev[j].kind = "error"}},
                            !.unpriced = {ps[i].symbol : i \in {j \in 1..Len(ps) : ev[j].kind = "unpriced"}},
                            !.to_sell = picked,
                            !.attempts = [i \in 1..Len(picked) |->
                                            [symbol |-> picked[i].symbol,
                                             qty |-> picked[i].qty]],
                            !.sells = sells,
                            !.logged = IF sheet_ok THEN [i \in 1..Len(sold) |-> sold[i].symbol]
                                       ELSE <<>>,
                            !.raised = (sells # <<>> /\ ~sheet_ok)]

(***************************************************************************)
(* Inputs of the model.                                                    *)
(***************************************************************************)
T0 == 40 * SecondsPerDay
Nows == {T0, T0 + 1}

BaseColumns == {"Traded", "Ticker", "Transaction"}
AllColumns == BaseColumns \cup {"Trade_Size_USD", "excess_return"}

RawRow(i, traded, ticker, transaction, size, er) ==
  [index |-> i, Traded |-> traded, Ticker |-> ticker, Transaction |-> transaction,
   Trade_Size_USD |-> size, excess_return |-> er]

NoFeed == [ok |-> TRUE, columns |-> {}, rows |-> <<>>]
NoFrame == [raised |-> FALSE, columns |-> {}, rows |-> <<>>]
NoBuy == [raised |-> FALSE, held |-> {}, io |-> <<>>, orders |-> <<>>]

Labels(rows) == {rows[i].index : i \in 1..Len(rows)}

\* a broker snapshot: the held symbols in the order of `order`
Pos(symbol, qty, current_price, avg_entry_price) ==
  [symbol |-> symbol, qty |-> qty, current_price |-> current_price,
   avg_entry_price |-> avg_entry_price]

NotHeld == [held |-> FALSE, qty |-> 0, current_price |-> 0, avg_entry_price |-> 0]

Holdings(qtys, prices, costs) ==
  {NotHeld} \cup {[held |-> TRUE, qty |-> q, current_price |-> c, avg_entry_price |-> k] :
                    q \in qtys, c \in prices, k \in costs}

Snapshot(order, h) ==
  LET held == SelectSeq(order, LAMBDA s : h[s].held)
  IN  [i \in 1..Len(held) |->
         Pos(held[i], h[held[i]].qty, h[held[i]].current_price,
             h[held[i]].avg_entry_price)]

Snapshots(order, options) ==
  {Snapshot(order, h) : h \in [Range(order) -> options]}

(***************************************************************************)
(* SpecFetch: fetch_congress_trades applied to bounded feeds.              *)
(***************************************************************************)
TradedCells ==
  {DateText(T0 - 29 * SecondsPerDay), DateText(T0 - CutoffDays * SecondsPerDay),
   DateText(T0 - 31 * SecondsPerDay), Text, None}

FeedRows(cells) ==
  [i \in 1..Len(cells) |-> RawRow(i, cells[i], Sym("A"), "Buy", Num(150000), Num(10))]

FeedsFetch ==
  {[ok |-> FALSE, columns |-> {}, rows |-> <<>>]}
  \cup {[ok |-> TRUE, columns |-> AllColumns \ {"Traded"}, rows |-> FeedRows(<<Text>>)]}
  \cup {[ok |-> TRUE, columns |-> AllColumns, rows |-> FeedRows(c)] :
          c \in SeqsUpTo(TradedCells, MaxFeedLen)}

InitFetch ==
  /\ pc = "call"
  /\ now = 0
  /\ feed = NoFeed
  /\ df = NoFrame
  /\ df_scored = NoFrame
  /\ buy = NoBuy
  /\ trailing_file = NoFile
  /\ exit = NoExit

CallFetch ==
  /\ pc = "call"
  /\ \E resp \in FeedsFetch, t \in Nows :
       /\ feed' = resp
       /\ now' = t
       /\ df' = fetch_congress_trades(resp, t)
  /\ pc' = "returned"
  /\ UNCHANGED <<df_scored, buy, trailing_file, exit>>

NextFetch == CallFetch

SpecFetch == InitFetch /\ [][NextFetch]_vars

\* C8: the frame fetch_congress_trades returns holds exactly the records of the
\* feed whose date parses and is >= now - 30 days, unchanged and in feed order;
\* a record 30 days and 1 second old is left out, a record 29 days old is kept.
C8_RecentParsedInOrder ==
  (pc = "returned" /\ ~df.raised) =>
    LET inp == feed.rows
        out == df.rows
        age(i) == now - inp[i].Traded.v
        keep == {i \in 1..Len(inp) :
                   inp[i].Traded.kind = "date" /\ age(i) <= CutoffDays * SecondsPerDay}
    IN  /\ Labels(out) = {inp[i].index : i \in keep}
        /\ Len(out) = Cardinality(keep)
        /\ \A i, j \in 1..Len(out) : i < j => out[i].index < out[j].index
        /\ \A i \in 1..Len(out) : out[i].Traded = inp[out[i].index].Traded
        /\ \A i \in 1..Len(inp) :
             /\ inp[i].Traded.kind # "date" => inp[i].index \notin Labels(out)
             /\ (inp[i].Traded.kind = "date" /\ age(i) = CutoffDays * SecondsPerDay + 1)
                  => inp[i].index \notin Labels(out)
             /\ (inp[i].Traded.kind = "date" /\ age(i) = 29 * SecondsPerDay)
                  => inp[i].index \in Labels(out)

\* a feed with an unparseable date first, then a record 30 days and 1 second
\* old, then a record 29 days old at the bound of a later call: one is kept
C8_Witness ==
  /\ pc = "returned" /\ ~df.raised
  /\ Len(feed.rows) = 3
  /\ feed.rows[1].Traded = Text
  /\ feed.rows[2].Traded.kind = "date"
  /\ now - feed.rows[2].Traded.v = CutoffDays * SecondsPerDay + 1
  /\ feed.rows[3].Traded.kind = "date"
  /\ now - feed.rows[3].Traded.v < CutoffDays * SecondsPerDay
  /\ Len(df.rows) = 1
  /\ df.rows[1].index = 3

(***************************************************************************)
(* SpecScore: score_trades applied to bounded frames.                      *)
(***************************************************************************)
SizeCells ==
  {Text, None, Num(0), Num(24999), Num(25000), Num(99999), Num(100000), Num(150000)}
TransactionTexts == {"Buy", "buy", "BUY", "Sell", "SELL", "Exchange", "Purchase"}
ExcessCells == {Text, None, Num(-3), Num(0), Num(3), Num(5), Num(6), Num(10)}

Fetched(r) == WithDate(r)

\* frames of one row, over every combination of the cells
OneRowFrames ==
  {[raised |-> FALSE, columns |-> AllColumns \cup {"TransactionDate"},
    rows |-> <<Fetched(RawRow(1, DateText(T0), Sym("A"), x, z, e))>>] :
     x \in TransactionTexts, z \in SizeCells, e \in ExcessCells}

\* a few kinds of row, in every order and with every subset of the optional
\* columns
FewKinds ==
  {<<"Buy", Num(150000), Num(10)>>, <<"buy", Text, Num(10)>>,
   <<"SELL", Num(150000), None>>, <<"Exchange", Num(30000), Num(3)>>}

KindRows(kinds) ==
  [i \in 1..Len(kinds) |->
     Fetched(RawRow(i, DateText(T0), Sym("A"), kinds[i][1], kinds[i][2], kinds[i][3]))]

ManyRowFrames ==
  {[raised |-> FALSE, columns |-> BaseColumns \cup opt \cup {"TransactionDate"},
    rows |-> KindRows(k)] :
     opt \in SUBSET {"Trade_Size_USD", "excess_return"},
     k \in SeqsUpTo(FewKinds, MaxScoreLen)}

FramesScore ==
  OneRowFrames \cup ManyRowFrames
  \cup {[raised |-> FALSE, columns |-> {"Traded", "Ticker", "TransactionDate"},
         rows |-> KindRows(<<>>)]}

InitScore == InitFetch

CallScore ==
  /\ pc = "call"
  /\ \E d \in FramesScore :
       /\ df' = d
       /\ df_scored' \in score_trades(d)
  /\ pc' = "returned"
  /\ UNCHANGED <<now, feed, buy, trailing_file, exit>>

NextScore == CallScore

SpecScore == InitScore /\ [][NextScore]_vars

\* the contributions as the scoring rules state them
RuleSize(columns, c) ==
  IF "Trade_Size_USD" \notin columns THEN 0
  ELSE IF c.v >= 100000 THEN 3 ELSE IF c.v >= 25000 THEN 2 ELSE 1
RuleDirection(x) ==
  IF x \in {"Buy", "buy", "BUY"} THEN 2 ELSE IF x \in {"Sell", "sell", "SELL"} THEN -2 ELSE 0
RuleExcess(columns, c) ==
  IF "excess_return" \notin columns \/ c.kind # "num" THEN 0
  ELSE IF c.v > 5 THEN 2 ELSE IF c.v > 0 THEN 1 ELSE 0

WellFormed(columns, r) ==
  /\ "Trade_Size_USD" \in columns => r.Trade_Size_USD.kind = "num"
  /\ "excess_return" \in columns => r.excess_return.kind = "num"

\* C5: the frame score_trades returns is a permutation of its input, sorted in
\* descending order of score, and records of equal score keep their input order.
C5_SortedStablePermutation ==
  (pc = "returned" /\ ~df_scored.raised) =>
    LET out == df_scored.rows
    IN  /\ Len(out) = Len(df.rows)
        /\ Labels(out) = Labels(df.rows)
        /\ \A i \in 1..Len(out) : out[i].Ticker = df.rows[out[i].index].Ticker
        /\ \A i, j \in 1..Len(out) : i < j => out[i].score >= out[j].score
        /\ \A i, j \in 1..Len(out) :
             (i < j /\ out[i].score = out[j].score) => out[i].index < out[j].index

\* C6: the score of a record is the sum of the size tier, the direction, the
\* excess-return tier and 1; a Buy of size 150000 with excess return 0.1 scores
\* 8; no score is above 8 or below -1.
C6_ScoreIsSumOfFourRules ==
  (pc = "returned" /\ ~df_scored.raised) =>
    \A i \in 1..Len(df_scored.rows) :
      LET r == df_scored.rows[i]
      IN  /\ WellFormed(df.columns, r) =>
               r.score = RuleSize(df.columns, r.Trade_Size_USD)
                         + RuleDirection(r.Transaction)
                         + RuleExcess(df.columns, r.excess_return) + 1
          /\ r.score <= 8
          /\ r.score >= -1
          /\ (/\ {"Trade_Size_USD", "excess_return"} \subseteq df.columns
              /\ r.Transaction = "Buy"
              /\ r.Trade_Size_USD = Num(150000)
              /\ r.excess_return = Num(10)) => r.score = 8

\* the Buy of size 150000 with excess return 0.1 was scored 8, and so was a
\* lower-case buy
C6_Witness ==
  /\ pc = "returned" /\ ~df_scored.raised
  /\ Len(df_scored.rows) = 2
  /\ {"Trade_Size_USD", "excess_return"} \subseteq df.columns
  /\ \E i, j \in 1..2 :
       /\ df_scored.rows[i].Transaction = "Buy"
       /\ df_scored.rows[i].Trade_Size_USD = Num(150000)
       /\ df_scored.rows[i].excess_return = Num(10)
       /\ df_scored.rows[i].score = 8
       /\ df_scored.rows[j].Transaction = "buy"
       /\ df_scored.rows[j].score = 6

\* C7: a record whose trade size or excess return is missing or malformed gets
\* 0 from that field's rule, and scoring does not raise.
C7_MalformedContributesZero ==
  (pc = "returned" /\ "Transaction" \in df.columns) =>
    /\ ~df_scored.raised
    /\ \A i \in 1..Len(df_scored.rows) :
         LET r == df_scored.rows[i]
             size == IF "Trade_Size_USD" \in df.columns /\ r.Trade_Size_USD.kind = "num"
                       THEN RuleSize(df.columns, r.Trade_Size_USD) ELSE 0
         IN  r.score = size + RuleDirection(r.Transaction)
                       + RuleExcess(df.columns, r.excess_return) + 1

(***************************************************************************)
(* SpecBuy: execute_trades applied to bounded scored frames.               *)
(***************************************************************************)
\* a strong Buy (score 8) under each kind of ticker, and a weak one (score 4)
BuyKinds ==
  {<<Sym("A"), Num(150000), Num(10)>>, <<Sym("B"), Num(150000), Num(10)>>,
   <<Sym(""), Num(150000), Num(10)>>, <<NoTicker, Num(150000), Num(10)>>,
   <<Sym("A"), Num(0), Num(0)>>}

BuyRows(kinds) ==
  [i \in 1..Len(kinds) |->
     Fetched(RawRow(i, DateText(T0), kinds[i][1], "Buy", kinds[i][2], kinds[i][3]))]

FramesBuy ==
  UNION {score_trades([raised |-> FALSE,
                       columns |-> AllColumns \cup {"TransactionDate"},
                       rows |-> BuyRows(k)]) :
           k \in SeqsUpTo(BuyKinds, MaxCandidates)}

Answers ==
  {QuoteRaise, QuoteNone, Quote(0, TRUE), Quote(-100, TRUE), Quote(1250, TRUE),
   Quote(1250, FALSE), Quote(6000, TRUE)}

InitBuy == InitFetch

CallBuy ==
  /\ pc = "call"
  /\ \E d \in FramesBuy, symbols \in {{}, {"A"}} :
       \E io \in [Labels(Qualifying(d.rows)) -> Answers] :
         /\ df_scored' = d
         /\ buy' = execute_trades(d, TRUE, symbols, io)
  /\ pc' = "returned"
  /\ UNCHANGED <<now, feed, df, trailing_file, exit>>

\* get_all_positions raises
CallBuyBrokerDown ==
  /\ pc = "call"
  /\ \E d \in FramesBuy :
       /\ df_scored' = d
       /\ buy' = execute_trades(d, FALSE, {},
                                [i \in Labels(Qualifying(d.rows)) |-> QuoteRaise])
  /\ pc' = "returned"
  /\ UNCHANGED <<now, feed, df, trailing_file, exit>>

NextBuy == CallBuy \/ CallBuyBrokerDown

SpecBuy == InitBuy /\ [][NextBuy]_vars

Usable(r) == r.Ticker.kind = "str" /\ r.Ticker.s # ""

\* the candidate's price lookup fails, gives no price or a price <= 0, or its
\* order is refused
Fails(o) == o.quote = "raise" \/ o.quote = "none" \/ o.cents <= 0 \/ ~o.order_ok

\* C3: in one run of execute_trades no two buy orders are submitted for the
\* same symbol, and none for a symbol held at the start of the run.
C3_OneBuyPerSymbolNoneHeld ==
  pc = "returned" =>
    /\ \A i, j \in 1..Len(buy.orders) :
         buy.orders[i].symbol = buy.orders[j].symbol => i = j
    /\ \A i \in 1..Len(buy.orders) : buy.orders[i].symbol \notin buy.held

\* C10: the buy orders of a run are those of its candidates that do not fail,
\* in order, each as if the failing candidates had not been there.
C10_FailuresAreIsolated ==
  (pc = "returned" /\ ~buy.raised) =>
    LET q == Qualifying(df_scored.rows)
        good == SelectSeq(q, LAMBDA r : /\ Usable(r)
                                        /\ r.Ticker.s \notin buy.held
                                        /\ ~Fails(buy.io[r.index]))
    IN  /\ Len(buy.orders) = Len(good)
        /\ \A i \in 1..Len(good) :
             /\ buy.orders[i].symbol = good[i].Ticker.s
             /\ \/ buy.orders[i].qty * buy.io[good[i].index].cents <= BudgetCents
                \/ buy.orders[i].qty = 1
             /\ (buy.orders[i].qty + 1) * buy.io[good[i].index].cents > BudgetCents

\* the first candidate's price lookup raised and the second candidate was bought
C10_Witness ==
  /\ pc = "returned" /\ ~buy.raised
  /\ Len(Qualifying(df_scored.rows)) = 2
  /\ Usable(Qualifying(df_scored.rows)[1])
  /\ Qualifying(df_scored.rows)[1].Ticker.s \notin buy.held
  /\ buy.io[Qualifying(df_scored.rows)[1].index].quote = "raise"
  /\ Len(buy.orders) = 1
  /\ buy.orders[1].symbol = Qualifying(df_scored.rows)[2].Ticker.s

(***************************************************************************)
(* Spec: the flow of run_bot, run after run.  Each run fetches, scores,    *)
(* logs, buys and then runs its sell engine: trailing_stop_and_sell in the *)
(* run_bot of lines 308-324, sell_logic in the run_bot of lines 582-599.   *)
(* A step that raises ends the run ("failed"): run_bot catches nothing.    *)
(***************************************************************************)
RunOrder == <<"A", "B">>
RunSymbols == Range(RunOrder)

FeedsRun ==
  {[ok |-> FALSE, columns |-> {}, rows |-> <<>>],
   [ok |-> TRUE, columns |-> AllColumns, rows |-> <<>>],
   [ok |-> TRUE, columns |-> AllColumns,
    rows |-> <<RawRow(1, DateText(T0 - 29 * SecondsPerDay), Sym("A"), "Buy",
                      Num(150000), Num(10))>>]}

BrokersRun ==
  {[ok |-> FALSE, positions |-> <<>>]}
  \cup {[ok |-> TRUE, positions |-> p] :
          p \in Snapshots(RunOrder, Holdings({2}, {0, 23, 25}, {0, 25}))}

Init ==
  /\ pc = "fetch"
  /\ now = 0
  /\ feed = NoFeed
  /\ df = NoFrame
  /\ df_scored = NoFrame
  /\ buy = NoBuy
  /\ trailing_file = NoFile
  /\ exit = NoExit

Fetch ==
  /\ pc = "fetch"
  /\ \E resp \in FeedsRun :
       /\ feed' = resp
       /\ now' = T0
       /\ df' = fetch_congress_trades(resp, T0)
       /\ pc' = IF fetch_congress_trades(resp, T0).raised THEN "failed" ELSE "score"
  /\ UNCHANGED <<df_scored, buy, trailing_file, exit>>

Score ==
  /\ pc = "score"
  /\ df_scored' \in score_trades(df)
  /\ pc' = IF df_scored'.raised THEN "failed" ELSE "log"
  /\ UNCHANGED <<now, feed, df, buy, trailing_file, exit>>

\* log_to_sheet(df_scored): the spreadsheet calls succeed or raise
LogToSheet ==
  /\ pc = "log"
  /\ \E sheet_ok \in BOOLEAN : pc' = IF sheet_ok THEN "buy" ELSE "failed"
  /\ UNCHANGED <<now, feed, df, df_scored, buy, trailing_file, exit>>

ExecuteTrades ==
  /\ pc = "buy"
  /\ \E positions_ok \in BOOLEAN, symbols \in {{}, {"A"}} :
       \E io \in [Labels(Qualifying(df_scored.rows)) -> {QuoteRaise, Quote(1250, TRUE)}] :
         /\ buy' = execute_trades(df_scored, positions_ok,
                                  IF positions_ok THEN symbols ELSE {}, io)
         /\ pc' = IF buy'.raised THEN "failed" ELSE "exit"
  /\ UNCHANGED <<now, feed, df, df_scored, trailing_file, exit>>

TrailingStopAndSell ==
  /\ pc = "exit"
  /\ \E read_ok \in BOOLEAN, broker \in BrokersRun,
        order_fail \in SUBSET RunSymbols, log_fail \in SUBSET RunSymbols :
       LET r == trailing_stop_and_sell(trailing_file, read_ok, broker,
                                       order_fail, log_fail)
       IN  /\ trailing_file' = r.file
           /\ exit' = r.exit
           /\ pc' = IF r.exit.raised THEN "failed" ELSE "done"
  /\ UNCHANGED <<now, feed, df, df_scored, buy>>

SellLogic ==
  /\ pc = "exit"
  /\ \E broker \in BrokersRun, quote_fail \in SUBSET RunSymbols,
        order_fail \in SUBSET RunSymbols, sheet_ok \in BOOLEAN :
       /\ exit' = sell_logic(broker, quote_fail, order_fail, sheet_ok)
       /\ pc' = IF exit'.raised THEN "failed" ELSE "done"
  /\ UNCHANGED <<now, feed, df, df_scored, buy, trailing_file>>

\* the next scheduled run starts from the file the last one left
NextRun ==
  /\ pc \in {"done", "failed"}
  /\ pc' = "fetch"
  /\ now' = 0
  /\ feed' = NoFeed
  /\ df' = NoFrame
  /\ df_scored' = NoFrame
  /\ buy' = NoBuy
  /\ exit' = NoExit
  /\ UNCHANGED trailing_file

Next ==
  \/ Fetch
  \/ Score
  \/ LogToSheet
  \/ ExecuteTrades
  \/ TrailingStopAndSell
  \/ SellLogic
  \/ NextRun

Spec == Init /\ [][Next]_vars

Stored_OK ==
  \A s \in DOMAIN trailing_file.data :
    /\ s \in DOMAIN trailing_file'.data
    /\ trailing_file'.data[s].highest >= trailing_file.data[s].highest

\* C1 as stated: from one run to the next the persisted highest price of a
\* symbol never decreases, whatever prices the runs observe.
C1_WatermarkNeverDecreases == [][Stored_OK]_vars

\* C1 amended: a run whose read of the watermark file succeeds (or finds no
\* file) never lowers the persisted highest price of a symbol.
C1_NeverDecreasesWhenLoaded == [][exit'.load_ok => Stored_OK]_vars

\* a run that read the file observed a price below the stored watermark, and
\* the watermark it saved is the stored one
C1_Witness ==
  /\ pc = "done" /\ exit.policy = "trailing" /\ exit.load_ok /\ exit.saves = 1
  /\ \E i \in 1..Len(exit.rows) :
       /\ exit.rows[i].current = 23
       /\ exit.rows[i].highest = 25
       /\ trailing_file.data[exit.rows[i].symbol].highest = 25

Ended == pc \in {"done", "failed"}

\* C4: every run of the bot saves the watermark state exactly once, also with
\* no violators, with no open positions, and when the fetch, the logging or the
\* buy phase of the run fails.
C4_SavedOncePerRun == (Ended /\ exit.policy # "fixed") => exit.saves = 1

\* C9: a position of zero cost basis is evaluated with pl_fraction 0 and one of
\* zero watermark with drawdown_fraction 0, under both sell engines; none is
\* left out and no error ends the run.
C9_ZeroGuards ==
  \A i \in 1..Len(exit.positions) :
    LET p == exit.positions[i]
        evaluated == {j \in 1..Len(exit.rows) : exit.rows[j].symbol = p.symbol}
    IN  /\ exit.policy = "trailing" =>
             \E j \in evaluated :
               /\ p.avg_entry_price = 0 => exit.rows[j].pl_pct = Zero
               /\ exit.rows[j].highest = 0 => exit.rows[j].drop_pct = Zero
        /\ (exit.policy = "fixed" /\ p.avg_entry_price = 0
              /\ p.current_price > 0 /\ p.symbol \notin exit.unpriced) =>
             \E j \in evaluated : exit.rows[j].pl_pct = Zero

(***************************************************************************)
(* SpecExit: trailing_stop_and_sell day after day on one account whose     *)
(* prices stay as they are; a sell order that is accepted closes its       *)
(* position.                                                               *)
(***************************************************************************)
ExitOrder == <<"A", "B", "C", "D">>
ExitSymbols == Range(ExitOrder)

PeakFile == [exists |-> TRUE, data |-> [s \in ExitSymbols |-> [highest |-> 25]]]

InitExit ==
  /\ pc = "start"
  /\ now = 0
  /\ feed = NoFeed
  /\ df = NoFrame
  /\ df_scored = NoFrame
  /\ buy = NoBuy
  /\ trailing_file \in {NoFile, PeakFile}
  /\ \E p \in Snapshots(ExitOrder, Holdings({2}, {23, 25}, {20, 25, 30})) :
       exit = [NoExit EXCEPT !.positions = p]

\* the positions still open after the orders of the last run
StillOpen ==
  SelectSeq(exit.positions,
            LAMBDA p : \A i \in 1..Len(exit.sells) : exit.sells[i].symbol # p.symbol)

ExitRun ==
  /\ pc \in {"start", "done"}
  /\ \E order_fail \in {{}, {"A"}, ExitSymbols}, log_fail \in {{}, ExitSymbols} :
       LET r == trailing_stop_and_sell(trailing_file, TRUE,
                                       [ok |-> TRUE, positions |-> StillOpen],
                                       order_fail, log_fail)
       IN  /\ trailing_file' = r.file
           /\ exit' = r.exit
  /\ pc' = "done"
  /\ UNCHANGED <<now, feed, df, df_scored, buy>>

NextExit == ExitRun

SpecExit == InitExit /\ [][NextExit]_vars

\* the violators of a run, by the definition of the policy
Violators ==
  {j \in 1..Len(exit.rows) :
     (exit.rows[j].highest - exit.rows[j].current) * TRAIL_PERCENT_DEN
       >= TRAIL_PERCENT_NUM * exit.rows[j].highest}

Selected == {exit.to_sell[i].symbol : i \in 1..Len(exit.to_sell)}

\* C2: a run submits sell orders for at most 3 positions, and the positions it
\* selects are min(3, number of violators) violators, none of which has a
\* higher pl_fraction than a violator left out; no non-violator is selected.
C2_WorstThreeViolators ==
  (pc = "done" /\ exit.policy = "trailing") =>
    /\ Len(exit.sells) <= TOP_LOSERS_TO_SELL
    /\ \A i \in 1..Len(exit.sells) : exit.sells[i].symbol \in Selected
    /\ Len(exit.to_sell) = Min(TOP_LOSERS_TO_SELL, Cardinality(Violators))
    /\ Cardinality(Selected) = Len(exit.to_sell)
    /\ Selected \subseteq {exit.rows[j].symbol : j \in Violators}
    /\ \A j \in Violators : \A i \in 1..Len(exit.to_sell) :
         exit.rows[j].symbol \notin Selected =>
           FracLeq(exit.to_sell[i].pl_pct, exit.rows[j].pl_pct)

\* four violators, of which the first in the snapshot has the best pl_fraction
\* and is the one left out, and a run where all three orders were accepted
C2_Witness ==
  /\ pc = "done" /\ exit.policy = "trailing"
  /\ Cardinality(Violators) = 4
  /\ Len(exit.to_sell) = 3
  /\ Len(exit.sells) = 3
  /\ exit.rows[1].symbol \notin Selected
  /\ \A i \in 1..3 : FracLess(exit.to_sell[i].pl_pct, exit.rows[1].pl_pct)

\* C11: in a run of trailing_stop_and_sell that selects violators, a sell
\* order is handed to submit_order for every selected violator, in order,
\* whichever of the submissions fail, and the file saved by the run holds the
\* updated watermark of every evaluated position, also when every submission
\* fails.
C11_SellFailuresIsolated ==
  (pc = "done" /\ exit.policy = "trailing" /\ exit.to_sell # <<>>) =>
    /\ Len(exit.attempts) = Len(exit.to_sell)
    /\ \A i \in 1..Len(exit.to_sell) :
         /\ exit.attempts[i].symbol = exit.to_sell[i].symbol
         /\ exit.attempts[i].qty = exit.to_sell[i].qty
    /\ \A i \in 1..Len(exit.sells) :
         \E j \in 1..Len(exit.attempts) : exit.sells[i] = exit.attempts[j]
    /\ exit.saves = 1
    /\ trailing_file.exists
    /\ \A i \in 1..Len(exit.rows) :
         /\ exit.rows[i].symbol \in DOMAIN trailing_file.data
         /\ trailing_file.data[exit.rows[i].symbol].highest = exit.rows[i].highest

\* the order of the first selected violator was refused, the order of the
\* second one was submitted and accepted, and the watermarks were saved
C11_Witness ==
  /\ pc = "done" /\ exit.policy = "trailing"
  /\ Len(exit.to_sell) >= 2
  /\ Len(exit.sells) >= 1
  /\ \A i \in 1..Len(exit.sells) : exit.sells[i].symbol # exit.to_sell[1].symbol
  /\ exit.sells[1].symbol = exit.to_sell[2].symbol
  /\ exit.saves = 1
  /\ trailing_file.data[exit.to_sell[1].symbol].highest = exit.to_sell[1].highest

\* the orders handed to submit_order by the sell loop once the step is taken
SellOrdersAsSelected ==
  /\ Len(exit'.attempts) = Len(exit'.to_sell)
  /\ \A i \in 1..Len(exit'.to_sell) :
       exit'.attempts[i].symbol = exit'.to_sell[i].symbol

\* C12: a failure of a logging call never changes the orders of the run: the
\* buy phase follows log_to_sheet whether it succeeded or raised, as in a run
\* whose logging succeeds, and the sell loop hands an order to the broker for
\* every selected position whichever calls of log_sale_to_sheet raise.
C12_LoggingNeverChangesOrders ==
  [][/\ pc = "log" => pc' = "buy"
     /\ (pc = "exit" /\ pc' = "done") => SellOrdersAsSelected]_vars

\* the mapping the run started from: the stored one, or the empty one when the
\* read of the file failed
Loaded == IF exit'.load_ok THEN trailing_file.data ELSE EmptyMap

\* every position of the broker snapshot has its entry updated in the file
AllUpdated ==
  /\ trailing_file'.exists
  /\ \A i \in 1..Len(exit'.positions) :
       LET p == exit'.positions[i]
       IN  /\ p.symbol \in DOMAIN trailing_file'.data
           /\ trailing_file'.data[p.symbol].highest =
                Max(Stored(Loaded, p.symbol, p.current_price), p.current_price)

\* C13: a run of trailing_stop_and_sell, also one that fails while evaluating
\* a position, leaves the watermark file either exactly as it was or with the
\* entry of every position of the broker snapshot updated; never with the
\* entries of only some of them updated.
C13_NeverPartiallyUpdated ==
  [][(pc = "exit" /\ exit'.policy = "trailing") =>
       (trailing_file' = trailing_file \/ AllUpdated)]_vars

\* a run raised while evaluating its second position after it had raised the
\* watermark of the first in memory, and the stored watermark is the old one
C13_Witness ==
  /\ pc = "failed" /\ exit.policy = "trailing" /\ exit.raised
  /\ Len(exit.positions) = 2 /\ Len(exit.rows) = 1
  /\ exit.rows[1].symbol \in DOMAIN trailing_file.data
  /\ trailing_file.data[exit.rows[1].symbol].highest < exit.rows[1].highest

(***************************************************************************)
(* SpecQty: execute_trades applied to one qualifying candidate that is not *)
(* held, under every fetched price from 0.00 to MaxPriceCents cents.       *)
(***************************************************************************)
FramesQty ==
  score_trades([raised |-> FALSE,
                columns |-> AllColumns \cup {"TransactionDate"},
                rows |-> BuyRows(<<<<Sym("A"), Num(150000), Num(10)>>>>)])

InitQty == InitFetch

CallQty ==
  /\ pc = "call"
  /\ \E d \in FramesQty, cents \in 0..MaxPriceCents :
       /\ df_scored' = d
       /\ buy' = execute_trades(d, TRUE, {},
                                [i \in Labels(Qualifying(d.rows)) |-> Quote(cents, TRUE)])
  /\ pc' = "returned"
  /\ UNCHANGED <<now, feed, df, trailing_file, exit>>

NextQty == CallQty

SpecQty == InitQty /\ [][NextQty]_vars

\* the price fetched for the candidate of the call, in cents
FetchedCents == buy.io[Qualifying(df_scored.rows)[1].index].cents

\* C14: the buy order submitted at a fetched price p > 0 has the quantity
\* max(1, floor(50 / p)): the largest number of shares the budget of 50 pays
\* for, and one share when the price is above the budget; 4 at p = 12.50,
\* and 1, never 0, at every p > 50.
C14_QuantityIsFloorAtLeastOne ==
  (pc = "returned" /\ FetchedCents > 0) =>
    /\ Len(buy.orders) = 1
    /\ LET q == buy.orders[1].qty
           p == FetchedCents
       IN  /\ q >= 1
           /\ p <= BUDGET * 100 => (q * p <= BUDGET * 100 /\ (q + 1) * p > BUDGET * 100)
           /\ p > BUDGET * 100 => q = 1
           /\ p = 1250 => q = 4

\* a share that costs 60.00, more than the budget, was ordered once
C14_Witness ==
  /\ pc = "returned"
  /\ FetchedCents = 6000
  /\ Len(buy.orders) = 1
  /\ buy.orders[1] = [symbol |-> "A", qty |-> 1]

\* the symbols of the broker snapshot of the run that the step takes
InSnapshot == {exit'.positions[i].symbol : i \in 1..Len(exit'.positions)}

\* C15: a run of trailing_stop_and_sell that loaded the watermark file leaves
\* the entry of every symbol outside the broker snapshot as it was, and it
\* evaluates a position that has an entry - one bought again after it was
\* sold, for instance - against the stored watermark, not against its current
\* price.
C15_StaleEntriesKept ==
  [][(pc = "exit" /\ exit'.policy = "trailing" /\ exit'.load_ok) =>
       /\ \A s \in DOMAIN trailing_file.data \ InSnapshot :
            /\ s \in DOMAIN trailing_file'.data
            /\ trailing_file'.data[s] = trailing_file.data[s]
       /\ \A i \in 1..Len(exit'.rows) :
            exit'.rows[i].symbol \in DOMAIN trailing_file.data =>
              exit'.rows[i].highest =
                Max(trailing_file.data[exit'.rows[i].symbol].highest,
                    exit'.rows[i].current)]_vars

\* a run that loaded and saved the file while the account held one symbol
\* only, and the file still has the watermark of the symbol no longer held
C15_Witness ==
  /\ pc = "done" /\ exit.policy = "trailing" /\ exit.load_ok /\ exit.saves = 1
  /\ Len(exit.positions) = 1
  /\ \E s \in DOMAIN trailing_file.data :
       /\ s # exit.positions[1].symbol
       /\ trailing_file.data[s].highest = 25

(***************************************************************************)
(* SpecPipe: score_trades and then execute_trades on its result, as in     *)
(* run_bot, on frames whose records have tickers of their own.             *)
(***************************************************************************)
PipeTickers == <<"A", "B", "C">>

\* scores 8, 4, 4, 6, 6 and 5 when both optional columns are there
PipeKinds ==
  {<<"Buy", Num(150000), Num(10)>>, <<"SELL", Num(150000), Num(10)>>,
   <<"sell", Num(150000), Num(10)>>, <<"Exchange", Num(150000), Num(10)>>,
   <<"Buy", Text, Num(10)>>, <<"Buy", Num(24999), Num(5)>>}

PipeRows(kinds) ==
  [i \in 1..Len(kinds) |->
     Fetched(RawRow(i, DateText(T0), Sym(PipeTickers[i]), kinds[i][1], kinds[i][2],
                    kinds[i][3]))]

FramesPipe ==
  {[raised |-> FALSE, columns |-> BaseColumns \cup opt \cup {"TransactionDate"},
    rows |-> PipeRows(k)] :
     opt \in SUBSET {"Trade_Size_USD", "excess_return"},
     k \in SeqsUpTo(PipeKinds, MaxPipeLen)}
  \cup {[raised |-> FALSE, columns |-> {"Traded", "Ticker", "TransactionDate"},
         rows |-> PipeRows(<<>>)]}

InitPipe == InitFetch

PipeScore ==
  /\ pc = "call"
  /\ \E d \in FramesPipe :
       /\ df' = d
       /\ df_scored' \in score_trades(d)
  /\ pc' = IF df_scored'.raised THEN "failed" ELSE "scored"
  /\ UNCHANGED <<now, feed, buy, trailing_file, exit>>

PipeBuy ==
  /\ pc = "scored"
  /\ \E symbols \in {{}, {"A"}} :
       \E io \in [Labels(Qualifying(df_scored.rows)) -> {QuoteRaise, Quote(1250, TRUE)}] :
         buy' = execute_trades(df_scored, TRUE, symbols, io)
  /\ pc' = "returned"
  /\ UNCHANGED <<now, feed, df, df_scored, trailing_file, exit>>

NextPipe == PipeScore \/ PipeBuy

SpecPipe == InitPipe /\ [][NextPipe]_vars

\* the records of the scored frame that have the ticker of an order
RecordsOf(order) ==
  {i \in 1..Len(df_scored.rows) : df_scored.rows[i].Ticker = Sym(order.symbol)}

\* C16: every buy order is for a record of score 6 or more, so none is for a
\* record whose transaction text is SELL in any case: a Sell record scores 4
\* at most, and without the trade-size column every record scores 5 at most
\* and nothing is bought.
C16_NoBuyBelowThreshold ==
  /\ \A i \in 1..Len(buy.orders) : \A j \in RecordsOf(buy.orders[i]) :
       /\ df_scored.rows[j].score >= 6
       /\ Upper(df_scored.rows[j].Transaction) # "SELL"
  /\ \A i \in 1..Len(buy.orders) : RecordsOf(buy.orders[i]) # {}
  /\ \A j \in 1..Len(df_scored.rows) :
       /\ Upper(df_scored.rows[j].Transaction) = "SELL" => df_scored.rows[j].score <= 4
       /\ "Trade_Size_USD" \notin df_scored.columns => df_scored.rows[j].score <= 5
  /\ "Trade_Size_USD" \notin df_scored.columns => buy.orders = <<>>

\* a Sell record of the highest score a Sell can have and a Buy record were
\* scored, and the one order of the run is for the Buy record
C16_Witness ==
  /\ pc = "returned"
  /\ Len(df_scored.rows) = 2
  /\ Len(buy.orders) = 1
  /\ \E j, k \in 1..2 :
       /\ Upper(df_scored.rows[j].Transaction) = "SELL"
       /\ df_scored.rows[j].score = 4
       /\ Upper(df_scored.rows[k].Transaction) = "BUY"
       /\ df_scored.rows[k].Ticker = Sym(buy.orders[1].symbol)

(***************************************************************************)
(* SpecDaily: trailing_stop_and_sell once a day for MaxDays days on one    *)
(* account whose prices stay as they are and where nothing is bought;      *)
(* every sell order is accepted and closes its position.  The scheduler    *)
(* starts the run of each day, hence the weak fairness of the day's step;  *)
(* the only steps that change `now` are those of DailyRun.                 *)
(***************************************************************************)
InitDaily ==
  /\ pc = "open"
  /\ now = 0
  /\ feed = NoFeed
  /\ df = NoFrame
  /\ df_scored = NoFrame
  /\ buy = NoBuy
  /\ trailing_file = NoFile
  /\ exit = NoExit

\* the watermark file and the open positions that the first run finds
FirstDay ==
  /\ pc = "open"
  /\ trailing_file' \in {NoFile, PeakFile}
  /\ \E p \in Snapshots(ExitOrder, Holdings({2}, {23, 25}, {20, 30})) :
       exit' = [NoExit EXCEPT !.positions = p]
  /\ pc' = "start"
  /\ UNCHANGED <<now, feed, df, df_scored, buy>>

DailyRun ==
  /\ pc \in {"start", "done"}
  /\ now < MaxDays * SecondsPerDay
  /\ now' = now + SecondsPerDay
  /\ \E log_fail \in {{}, ExitSymbols} :
       LET r == trailing_stop_and_sell(trailing_file, TRUE,
                                       [ok |-> TRUE, positions |-> StillOpen],
                                       {}, log_fail)
       IN  /\ trailing_file' = r.file
           /\ exit' = r.exit
  /\ pc' = "done"
  /\ UNCHANGED <<feed, df, df_scored, buy>>

NextDaily == FirstDay \/ DailyRun

\* a day passes: the step of the behaviour in which the scheduler ran the bot
DayPasses ==
  /\ pc \in {"start", "done"}
  /\ now < MaxDays * SecondsPerDay
  /\ now' = now + SecondsPerDay

SpecDaily == InitDaily /\ [][NextDaily]_vars /\ WF_now(DayPasses)

\* the symbols the last run found in violation, and those of its sell orders
ViolatorSymbols == {exit.rows[j].symbol : j \in Violators}
SoldSymbols == {exit.sells[i].symbol : i \in 1..Len(exit.sells)}

\* the violators of the run that the step takes
ViolatorsNext ==
  {exit'.rows[j].symbol :
     j \in {i \in 1..Len(exit'.rows) :
              (exit'.rows[i].highest - exit'.rows[i].current) * TRAIL_PERCENT_DEN
                >= TRAIL_PERCENT_NUM * exit'.rows[i].highest}}

\* C17: with prices that stay, no new positions and sell orders that succeed,
\* the violators of a run are those of the run before that were not sold, a
\* run sells min(3, their number) of them - so k violators are all sold
\* within ceil(k / 3) runs - and every position found in violation is
\* eventually selected for liquidation.
C17_ViolatorsNotStarved ==
  /\ [][/\ pc = "done" => ViolatorsNext = ViolatorSymbols \ SoldSymbols
        /\ Len(exit'.sells) = Min(TOP_LOSERS_TO_SELL, Cardinality(ViolatorsNext))]_vars
  /\ \A s \in ExitSymbols : (s \in ViolatorSymbols) ~> (s \in Selected)

\* the second run sold the fourth of four violators, left over by the first
C17_Witness ==
  /\ pc = "done" /\ now = 2 * SecondsPerDay
  /\ Len(exit.positions) = 1
  /\ ViolatorSymbols = {exit.positions[1].symbol}
  /\ SoldSymbols = ViolatorSymbols
  /\ DOMAIN trailing_file.data = ExitSymbols

====
